---- MODULE Spec2Model ----
(***************************************************************************)
(* State-machine model of the two notebooks of the repository:             *)
(*   - Aqua/qiskit_optimization_maxcut_programmatic_approach.ipynb         *)
(*     (Max-Cut: graph -> Ising Hamiltonian -> exact solver -> VQE)        *)
(*   - the chemistry "programmatic approach" notebook (src/unnamed/        *)
(*     part_000: molecule -> fermionic operator -> qubit operator ->       *)
(*     exact solver -> VQE)                                                *)
(* One run executes the code cells of one notebook in order; every code    *)
(* cell is one action.  The notebook variables are the state.              *)
(*                                                                         *)
(* Numbers: the Ising coefficients are 0.5*w[i,j], so every energy and the *)
(* offset is a multiple of 1/2.  The model stores such a number as the     *)
(* integer 2*value ("half units"): -41 stands for -20.5.  The variational   *)
(* solver stops within a residual of an eigenvalue (the notebook records    *)
(* -20.499999999992276 against -20.5), so a number of the notebook is a     *)
(* pair [half, fine]: half/2 + fine * 1e-15.                                *)
(***************************************************************************)
EXTENDS Integers, Sequences, FiniteSets, TLC

\* ---------------------------------------------------------------- bounds
\* Largest number of graph nodes of an input graph.
MaxNodes == 2
\* Edge weights of the input graphs range over -MaxWeight..MaxWeight.
MaxWeight == 1
\* Largest num_orbitals of an enumerated molecule (the molecule of the recorded
\* run, 6 orbitals, is added to them).
MaxOrbitals == 2
\* Longest freeze_list / remove_list enumerated for the chemistry notebook
\* (the notebook writes one of length 1 and one of length 2).
MaxListLen == 2
\* Largest residual (in units of 1e-15, either sign) the variational solver
\* leaves, besides the recorded one.
MaxResidual == 1

VARIABLES
  nb,        \* which notebook this run executes: "maxcut" or "chem"
  pc,        \* the next code cell to execute
  log,       \* history: the pipeline steps executed so far, in order
  \* ---- Max-Cut notebook variables
  w,         \* the weighted graph (numpy matrix): [n |-> nodes, a |-> matrix]
  qubitOp,   \* the Hamiltonian handed to the solvers
  offset,    \* the scalar offset of get_maxcut_qubitops (half units)
  assigns,   \* history: how often w / (qubitOp, offset) were assigned, and from where
  ee,        \* the ExactEigensolver object (holds the operator it was built with)
  vqe,       \* the VQE object (holds the operator it was built with)
  result,    \* the result dictionary of the solver run last
  x,         \* the bit vector returned by sample_most_likely
  out,       \* what the solver cells printed
  \* ---- chemistry notebook variables
  molecule, freeze_list, remove_list, num_particles, num_spin_orbitals,
  energy_shift, nuclear_repulsion_energy, hf, ret, results,
  written    \* history: freeze_list / remove_list as written in cell 3

vars == <<nb, pc, log, w, qubitOp, offset, assigns, ee, vqe, result, x, out,
          molecule, freeze_list, remove_list, num_particles, num_spin_orbitals,
          energy_shift, nuclear_repulsion_energy, hf, ret, results, written>>

mcVars == <<w, offset, assigns, result, x>>
chemVars == <<molecule, freeze_list, remove_list, num_particles, num_spin_orbitals,
              energy_shift, nuclear_repulsion_energy, hf, ret, results, written>>

\* ------------------------------------------------------------ arithmetic
RECURSIVE Pow2(_)
Pow2(k) == IF k = 0 THEN 1 ELSE 2 * Pow2(k - 1)

\* bit i of the basis-state index k
Bit(k, i) == (k \div Pow2(i)) % 2

RECURSIVE SumOver(_, _)
\* sum of f[e] over the finite set dom
SumOver(f, dom) ==
  IF dom = {} THEN 0
  ELSE LET e == CHOOSE e \in dom : TRUE IN f[e] + SumOver(f, dom \ {e})

RECURSIVE ProdOver(_, _)
ProdOver(f, dom) ==
  IF dom = {} THEN 1
  ELSE LET e == CHOOSE e \in dom : TRUE IN f[e] * ProdOver(f, dom \ {e})

\* The number half/2 + fine * 1e-15.
Num(half, fine) == [half |-> half, fine |-> fine]
Plus(a, b) == Num(a.half + b.half, a.fine + b.fine)
Minus(a, b) == Num(a.half - b.half, a.fine - b.fine)

Min(S) == CHOOSE m \in S : \A o \in S : m <= o
Max(S) == CHOOSE m \in S : \A o \in S : m >= o

\* ---------------------------------------------------------------- graphs
Nodes(n) == 0 .. n - 1
EdgePairs(n) == {p \in Nodes(n) \X Nodes(n) : p[1] < p[2]}
Weights == -MaxWeight .. MaxWeight

\* The weighted graphs of n nodes: symmetric matrix, zero diagonal.
GraphsOf(n) ==
  {[n |-> n,
    a |-> [p \in Nodes(n) \X Nodes(n) |->
             IF p[1] = p[2] THEN 0
             ELSE IF p[1] < p[2] THEN f[p] ELSE f[<<p[2], p[1]>>]]] :
   f \in [EdgePairs(n) -> Weights]}

\* The graph recorded in the notebook as the output of the random-graph cell.
RecordedGraph ==
  [n |-> 4,
   a |-> [p \in Nodes(4) \X Nodes(4) |->
            LET i == Min({p[1], p[2]}) j == Max({p[1], p[2]}) IN
            CASE <<i, j>> = <<0, 1>> -> 8
              [] <<i, j>> = <<0, 2>> -> -9
              [] <<i, j>> = <<1, 2>> -> 7
              [] <<i, j>> = <<1, 3>> -> 9
              [] <<i, j>> = <<2, 3>> -> -8
              [] OTHER -> 0]]

Graphs == UNION {GraphsOf(n) : n \in 1 .. MaxNodes} \cup {RecordedGraph}

NoGraph == [n |-> 0, a |-> << >>]

\* An assignment of the nodes to two sides: bits[i] \in {0,1} for node i.
\* The weight of the cut: the sum of w[i,j] over the edges with i in S and
\* j not in S (S = the nodes labelled 1).
CutWeight(g, bits) ==
  SumOver([p \in Nodes(g.n) \X Nodes(g.n) |->
             IF bits[p[1]] = 1 /\ bits[p[2]] = 0 THEN g.a[p] ELSE 0],
          Nodes(g.n) \X Nodes(g.n))

Assignments(n) == [Nodes(n) -> {0, 1}]
MaxCutWeight(g) == Max({CutWeight(g, b) : b \in Assignments(g.n)})
Complement(bits) == [i \in DOMAIN bits |-> 1 - bits[i]]

\* ------------------------------------------- library: Ising translation
NoOp == [kind |-> "none"]

\* maxcut.get_maxcut_qubitops(w): one Pauli term 0.5*w[i,j] Z_i Z_j per edge
\* with non-zero weight, and the shift -0.5*w[i,j] summed over those edges.
\* Coefficients in half units.
GetMaxcutQubitops(g) ==
  [op |-> [kind |-> "ising", num_qubits |-> g.n,
           paulis |-> {[coeff |-> g.a[p], z |-> {p[1], p[2]}] :
                       p \in {q \in EdgePairs(g.n) : g.a[q] # 0}}],
   shift |-> Num(0 - SumOver([p \in EdgePairs(g.n) |-> g.a[p]], EdgePairs(g.n)), 0)]

BasisStates(op) == 0 .. Pow2(op.num_qubits) - 1

\* <k| op |k>: every term is diagonal, Z on qubit q has the value
\* +1 when bit q of k is 0 and -1 when it is 1.
Energy(op, k) ==
  SumOver([t \in op.paulis |->
             t.coeff * ProdOver([q \in t.z |-> 1 - 2 * Bit(k, q)], t.z)],
          op.paulis)

Spectrum(op) == {Energy(op, k) : k \in BasisStates(op)}
MinEigenvalue(op) == Min(Spectrum(op))
Level(op, e) == {k \in BasisStates(op) : Energy(op, k) = e}
GroundStates(op) == Level(op, MinEigenvalue(op))

\* The vectors a solver may return for an eigenvalue whose eigenspace is
\* spanned by the basis states in S (relative magnitudes of the amplitudes):
\* one basis state, or a superposition of two of them, equal or unequal.
EigvecsOn(op, S) ==
  {[k \in BasisStates(op) |-> IF k = g THEN 1 ELSE 0] : g \in S}
  \cup
  {[k \in BasisStates(op) |-> IF k = pr[1] THEN pr[3]
                              ELSE IF k = pr[2] THEN pr[4] ELSE 0] :
     pr \in {q \in S \X S \X {1, 2} \X {1, 2} :
               q[1] < q[2] /\ ~(q[3] = 2 /\ q[4] = 2)}}

\* ExactEigensolver(op).run(): the lowest eigenvalue and an eigenvector of it.
\* With a degenerate lowest eigenvalue the eigenvector is any vector of the
\* eigenspace.
ExactResults(op) ==
  {[by |-> "exact", energy |-> Num(MinEigenvalue(op), 0), eigvecs |-> <<v>>] :
     v \in EigvecsOn(op, GroundStates(op))}

\* The residual of the recorded VQE run, in units of 1e-15:
\* energy -20.499999999992276 against the eigenvalue -20.5.
RecordedResidual == 7724

Residuals == (0 - MaxResidual .. MaxResidual) \cup {RecordedResidual}

\* VQE(op, ...).run(backend): the energy and state the optimizer stopped at.
\* The optimizer is a local search with an iteration budget: it stops within
\* a residual of some eigenvalue, the lowest one when it converged, with a
\* state whose amplitudes outside that eigenspace are too small to register
\* in the relative magnitudes.  The energy of a state is never below the
\* lowest eigenvalue.
VQEResults(op) ==
  UNION {{[by |-> "vqe", energy |-> Num(e, d), eigvecs |-> <<v>>] :
            v \in EigvecsOn(op, Level(op, e)),
            d \in {r \in Residuals : e = MinEigenvalue(op) => r >= 0}} :
         e \in Spectrum(op)}

\* maxcut.sample_most_likely(state_vector): k = argmax |amplitude| (numpy's
\* argmax: the first index of the maximum), then x[i] = bit i of k.
ArgMax(v) ==
  CHOOSE k \in DOMAIN v :
    /\ \A o \in DOMAIN v : v[o] <= v[k]
    /\ \A o \in DOMAIN v : v[o] = v[k] => k <= o

RECURSIVE Log2(_)
Log2(m) == IF m <= 1 THEN 0 ELSE 1 + Log2(m \div 2)

SampleMostLikely(v) ==
  LET n == Log2(Cardinality(DOMAIN v))
      k == ArgMax(v)
  IN [i \in Nodes(n) |-> Bit(k, i)]

\* maxcut.get_graph_solution(x) = 1 - x
GetGraphSolution(xs) == [i \in DOMAIN xs |-> 1 - xs[i]]

\* -------------------------------------------------- Max-Cut notebook cells
\* Mutant: the branch switched off (`if False:`).
RandomGraphBranch_Off == FALSE

\* `if True:` of the random-graph cell.
RandomGraphBranch == TRUE

\* Mutant: the Hamiltonian is derived from the graph w held before the cell.
HamiltonianInput_Stale(wOld, wNew) == wOld

\* The graph the random-graph cell hands to get_maxcut_qubitops: the w it has
\* just assigned.
HamiltonianInput(wOld, wNew) == wNew

\* The operator `ee = ExactEigensolver(qubitOp)` is built with.
ExactSolverInput(op) == op

\* Mutant: VQE is built with the negated operator.
VQESolverInput_Negated(op) ==
  [op EXCEPT !.paulis = {[coeff |-> 0 - t.coeff, z |-> t.z] : t \in op.paulis}]

\* The operator `vqe = VQE(qubitOp, ry, ...)` is built with.
VQESolverInput(op) == op

\* Mutant: the lines after the run read the result bound before it.
ResultAfterVQE_Stale(resOld, resNew) == resOld

\* `result = vqe.run(backend)` rebinds result; the lines after it read the
\* new binding.
ResultAfterVQE(resOld, resNew) == resNew

\* Mutant: the offset subtracted instead of added.
MaxcutObjective_Minus(res, off) == Minus(res.energy, off)

\* print('maxcut objective:', result['energy'] + offset)
MaxcutObjective(res, off) == Plus(res.energy, off)

\* The three print lines of a solver cell, as one record.
Printed(cell, res, xs, off) ==
  [cell |-> cell, by |-> res.by, energy |-> res.energy,
   objective |-> MaxcutObjective(res, off),
   solution |-> GetGraphSolution(xs)]

NoResult == [by |-> "none"]

Init ==
  /\ nb \in {"maxcut", "chem"}
  /\ pc = "start"
  /\ log = << >>
  /\ w = NoGraph
  /\ qubitOp = NoOp
  /\ offset = Num(0, 0)
  /\ assigns = [w |-> 0, ham |-> 0, src |-> "none"]
  /\ ee = NoOp
  /\ vqe = NoOp
  /\ result = NoResult
  /\ x = << >>
  /\ out = << >>
  /\ molecule = [num_orbitals |-> 0, num_alpha |-> 0, num_beta |-> 0]
  /\ freeze_list = << >>
  /\ remove_list = << >>
  /\ num_particles = 0
  /\ num_spin_orbitals = 0
  /\ energy_shift = "unset"
  /\ nuclear_repulsion_energy = "unset"
  /\ hf = [set |-> FALSE]
  /\ ret = NoResult
  /\ results = NoResult
  /\ written = [freeze_list |-> << >>, remove_list |-> << >>]

\* Cell 2:  w = maxcut.parse_gset_format('sample.maxcut')
\*          qubitOp, offset = maxcut.get_maxcut_qubitops(w)
ParseCell ==
  /\ nb = "maxcut" /\ pc = "start"
  /\ \E g \in Graphs :
       LET h == GetMaxcutQubitops(g) IN
       /\ w' = g
       /\ qubitOp' = h.op
       /\ offset' = h.shift
  /\ assigns' = [w |-> assigns.w + 1, ham |-> assigns.ham + 1, src |-> "file"]
  /\ log' = log \o <<"definition", "hamiltonian">>
  /\ pc' = "random"
  /\ UNCHANGED <<nb, ee, vqe, result, x, out>>
  /\ UNCHANGED chemVars

\* Cell 3:  if True: seed; n = 4; w = maxcut.random_graph(...);
\*                   qubitOp, offset = maxcut.get_maxcut_qubitops(w)
\*          print(w)
RandomCell ==
  /\ nb = "maxcut" /\ pc = "random"
  /\ IF RandomGraphBranch
       THEN \E g \in Graphs :
              LET h == GetMaxcutQubitops(HamiltonianInput(w, g)) IN
              /\ w' = g
              /\ qubitOp' = h.op
              /\ offset' = h.shift
              /\ assigns' = [w |-> assigns.w + 1, ham |-> assigns.ham + 1,
                             src |-> "random"]
              /\ log' = log \o <<"definition", "hamiltonian">>
       ELSE UNCHANGED <<w, qubitOp, offset, assigns, log>>
  /\ pc' = "exact"
  /\ UNCHANGED <<nb, ee, vqe, result, x, out>>
  /\ UNCHANGED chemVars

\* Cell 4:  ee = ExactEigensolver(qubitOp); result = ee.run()
\*          x = maxcut.sample_most_likely(result['eigvecs'][0])
\*          print energy, energy + offset, get_graph_solution(x)
ExactCell ==
  /\ nb = "maxcut" /\ pc = "exact"
  /\ ee' = ExactSolverInput(qubitOp)
  /\ \E r \in ExactResults(ee') :
       /\ result' = r
       /\ x' = SampleMostLikely(r.eigvecs[1])
       /\ out' = Append(out, Printed("exact", r, x', offset))
  /\ log' = Append(log, "exact")
  /\ pc' = "vqe"
  /\ UNCHANGED <<nb, w, qubitOp, offset, assigns, vqe>>
  /\ UNCHANGED chemVars

\* Cell 5:  vqe = VQE(qubitOp, ry, l_bfgs_b, ...); result = vqe.run(backend)
\*          x = maxcut.sample_most_likely(result['eigvecs'][0])
\*          print energy, time, energy + offset, get_graph_solution(x)
VQECell ==
  /\ nb = "maxcut" /\ pc = "vqe"
  /\ vqe' = VQESolverInput(qubitOp)
  /\ \E r \in VQEResults(vqe') :
       /\ result' = r
       /\ LET read == ResultAfterVQE(result, r) IN
          /\ x' = SampleMostLikely(read.eigvecs[1])
          /\ out' = Append(out, Printed("vqe", read, x', offset))
  /\ log' = Append(log, "vqe")
  /\ pc' = "done"
  /\ UNCHANGED <<nb, w, qubitOp, offset, assigns, ee>>
  /\ UNCHANGED chemVars

\* ------------------------------------------------ chemistry notebook cells
\* Python's x % n for n > 0: the result is in 0 .. n-1 also for negative x.
PyMod(v, n) == v % n

RECURSIVE SeqMap(_, _)
\* [Op(e) for e in s], Op given as a function
SeqMap(f, s) == IF s = << >> THEN << >> ELSE <<f[Head(s)]>> \o SeqMap(f, Tail(s))

Range(s) == {s[i] : i \in DOMAIN s}
NoDup(s) == \A i, j \in DOMAIN s : i # j => s[i] # s[j]

\* The molecule of the recorded run (LiH, sto3g): "# of electrons: 4",
\* "# of spin orbitals: 12".
RecordedMolecule == [num_orbitals |-> 6, num_alpha |-> 2, num_beta |-> 2]

\* The molecules the driver may return.
Molecules ==
  {m \in [num_orbitals : 1 .. MaxOrbitals, num_alpha : 0 .. MaxOrbitals,
          num_beta : 0 .. MaxOrbitals] :
     /\ m.num_alpha <= m.num_orbitals /\ m.num_beta <= m.num_orbitals
     /\ m.num_alpha + m.num_beta >= 1}
  \cup {RecordedMolecule}

\* freeze_list = [0]; remove_list = [-3, -2], as written in cell 3.
RecordedFreezeList == <<0>>
RecordedRemoveList == <<-3, -2>>

\* The indices enumerated for a molecule of n orbitals: all of -n .. n-1 for
\* an enumerated molecule, the first and the last MaxOrbitals orbitals of a
\* larger one.
Indices(n) == {v \in -n .. n - 1 : 0 - MaxOrbitals <= v /\ v < MaxOrbitals}

\* The lists a user may write in cell 3 for a molecule of n orbitals: indices
\* in -n .. n-1, no index written twice; the lists the notebook writes are
\* among them.
IndexLists(n) ==
  UNION {{s \in [1 .. k -> Indices(n)] : NoDup(s)} : k \in 0 .. MaxListLen}
  \cup {l \in {RecordedFreezeList, RecordedRemoveList} : Range(l) \subseteq -n .. n - 1}

\* remove_list = [x % molecule.num_orbitals for x in remove_list]   (also freeze_list)
ToPositive(l, n) == SeqMap([v \in -n .. n - 1 |-> PyMod(v, n)], l)

\* remove_list = [x - len(freeze_list) for x in remove_list]
ShiftAfterFrozen(rl, fl) ==
  SeqMap([v \in Range(rl) |-> v - Len(fl)], rl)

\* remove_list += [x + molecule.num_orbitals - len(freeze_list) for x in remove_list]
AddBetaRemove(rl, fl, n) ==
  rl \o SeqMap([v \in Range(rl) |-> v + n - Len(fl)], rl)

\* freeze_list += [x + molecule.num_orbitals for x in freeze_list]
AddBetaFreeze(fl, n) ==
  fl \o SeqMap([v \in Range(fl) |-> v + n], fl)

\* The four list statements of cell 4, in order: the converted
\* [freeze_list, remove_list].
PrepareIdx(fl0, rl0, n) ==
  LET rl1 == ToPositive(rl0, n)
      fl1 == ToPositive(fl0, n)
      rl2 == ShiftAfterFrozen(rl1, fl1)
      rl3 == AddBetaRemove(rl2, fl1, n)
      fl2 == AddBetaFreeze(fl1, n)
  IN [freeze_list |-> fl2, remove_list |-> rl3]

\* Mutant: the frozen spatial orbitals counted instead of the spin orbitals.
ParticlesAfterFreezing_Spatial(np, fl) ==
  IF Len(fl) > 0 THEN np - (Len(fl) \div 2) ELSE np

\* num_particles -= len(freeze_list)      (inside `if len(freeze_list) > 0`)
ParticlesAfterFreezing(np, fl) == IF Len(fl) > 0 THEN np - Len(fl) ELSE np

\* num_spin_orbitals -= len(freeze_list); num_spin_orbitals -= len(remove_list)
\* (each inside its `if len(...) > 0`)
SpinOrbitalsAfterReduction(nso, fl, rl) ==
  LET a == IF Len(fl) > 0 THEN nso - Len(fl) ELSE nso
  IN IF Len(rl) > 0 THEN a - Len(rl) ELSE a

\* library: FermionicOperator(h1, h2), fermion_mode_freezing,
\* fermion_mode_elimination, mapping, two_qubit_reduced_operator, chop.  The
\* operator is kept symbolically: which modes were frozen and removed, and how
\* it was mapped and reduced.
ChemQubitOp(n, fl, rl, map_type, qubit_reduction) ==
  [kind |-> "chem", modes |-> 2 * n, frozen |-> fl, removed |-> rl,
   map_type |-> map_type, reduced |-> qubit_reduction, chopped |-> TRUE]

\* library: the energy shift fermion_mode_freezing returns (symbolic);
\* energy_shift = 0.0 when nothing is frozen.
EnergyShift(fl) ==
  IF Len(fl) > 0 THEN [kind |-> "frozen", modes |-> fl] ELSE [kind |-> "zero"]

\* The operator `exact_eigensolver = ExactEigensolver(qubitOp, k=1)` is built with.
ChemExactSolverInput(op) == op

\* Mutant: VQE is built with the operator as it was before chop.
ChemVQESolverInput_Unchopped(op) == [op EXCEPT !.chopped = FALSE]

\* The operator `vqe = VQE(qubitOp, var_form, cobyla, 'matrix')` is built with.
ChemVQESolverInput(op) == op

\* The result the print lines of cell 9 read: results, assigned by vqe.run.
ChemPrintedResult(retExact, resVQE) == resVQE

\* The two print lines of a chemistry solver cell: the eigenvalue, and the
\* eigenvalue + energy_shift + nuclear_repulsion_energy.
ChemPrinted(cell, res, shift, nre) ==
  [cell |-> cell, by |-> res.by, eigval_of |-> res.op,
   total |-> [eigval_of |-> res.op, shift |-> shift, nre |-> nre]]

\* Cell 2:  driver = PySCFDriver(...); molecule = driver.run()
ChemDriverCell ==
  /\ nb = "chem" /\ pc = "start"
  /\ molecule' \in Molecules
  /\ log' = Append(log, "definition")
  /\ pc' = "params"
  /\ UNCHANGED <<nb, qubitOp, ee, vqe, out, freeze_list, remove_list, num_particles,
                 num_spin_orbitals, energy_shift, nuclear_repulsion_energy, hf,
                 ret, results, written>>
  /\ UNCHANGED mcVars

\* Cell 3:  freeze_list = [...]; remove_list = [...]; map_type = 'parity'
\*          nuclear_repulsion_energy = molecule.nuclear_repulsion_energy
\*          num_particles = num_alpha + num_beta; num_spin_orbitals = 2*num_orbitals
ChemParamsCell ==
  /\ nb = "chem" /\ pc = "params"
  /\ \E fl, rl \in IndexLists(molecule.num_orbitals) :
       /\ Range(fl) \cap Range(rl) = {}
       /\ freeze_list' = fl
       /\ remove_list' = rl
       /\ written' = [freeze_list |-> fl, remove_list |-> rl]
  /\ nuclear_repulsion_energy' = "molecule.nuclear_repulsion_energy"
  /\ num_particles' = molecule.num_alpha + molecule.num_beta
  /\ num_spin_orbitals' = molecule.num_orbitals * 2
  /\ pc' = "hamiltonian"
  /\ UNCHANGED <<nb, log, qubitOp, ee, vqe, out, molecule, energy_shift, hf,
                 ret, results>>
  /\ UNCHANGED mcVars

\* Cell 4:  index preparation, freezing / elimination with the counters'
\*          bookkeeping, mapping, two-qubit reduction, chop
ChemHamiltonianCell ==
  /\ nb = "chem" /\ pc = "hamiltonian"
  /\ LET idx == PrepareIdx(freeze_list, remove_list, molecule.num_orbitals) IN
     /\ freeze_list' = idx.freeze_list
     /\ remove_list' = idx.remove_list
     /\ energy_shift' = EnergyShift(idx.freeze_list)
     /\ num_particles' = ParticlesAfterFreezing(num_particles, idx.freeze_list)
     /\ num_spin_orbitals' =
          SpinOrbitalsAfterReduction(num_spin_orbitals, idx.freeze_list, idx.remove_list)
     /\ qubitOp' = ChemQubitOp(molecule.num_orbitals, idx.freeze_list,
                               idx.remove_list, "parity", TRUE)
  /\ log' = log \o <<"hamiltonian", "reduction">>
  /\ pc' = "exact"
  /\ UNCHANGED <<nb, ee, vqe, out, molecule, nuclear_repulsion_energy, hf, ret, results,
                 written>>
  /\ UNCHANGED mcVars

\* Cell 5:  exact_eigensolver = ExactEigensolver(qubitOp, k=1)
\*          ret = exact_eigensolver.run(); print eigenvalue and total energy
ChemExactCell ==
  /\ nb = "chem" /\ pc = "exact"
  /\ ee' = ChemExactSolverInput(qubitOp)
  /\ ret' = [by |-> "exact", op |-> ee']
  /\ out' = Append(out, ChemPrinted("exact", ret', energy_shift, nuclear_repulsion_energy))
  /\ log' = Append(log, "exact")
  /\ pc' = "setup"
  /\ UNCHANGED <<nb, qubitOp, vqe, molecule, freeze_list, remove_list, num_particles,
                 num_spin_orbitals, energy_shift, nuclear_repulsion_energy, hf, results,
                 written>>
  /\ UNCHANGED mcVars

\* Cell 8:  cobyla, HF_state = HartreeFock(qubitOp.num_qubits, num_spin_orbitals,
\*          num_particles, ...), var_form = UCCSD(..., num_orbitals=num_spin_orbitals,
\*          num_particles=num_particles, ...), vqe = VQE(qubitOp, var_form, ...)
ChemSetupCell ==
  /\ nb = "chem" /\ pc = "setup"
  /\ hf' = [set |-> TRUE, num_orbitals |-> num_spin_orbitals,
            num_particles |-> num_particles]
  /\ vqe' = ChemVQESolverInput(qubitOp)
  /\ pc' = "vqe"
  /\ UNCHANGED <<nb, log, qubitOp, ee, out, molecule, freeze_list, remove_list,
                 num_particles, num_spin_orbitals, energy_shift,
                 nuclear_repulsion_energy, ret, results, written>>
  /\ UNCHANGED mcVars

\* Cell 9:  results = vqe.run(quantum_instance); print eigenvalue, total energy
ChemVQECell ==
  /\ nb = "chem" /\ pc = "vqe"
  /\ results' = [by |-> "vqe", op |-> vqe]
  /\ out' = Append(out, ChemPrinted("vqe", ChemPrintedResult(ret, results'),
                                    energy_shift, nuclear_repulsion_energy))
  /\ log' = Append(log, "vqe")
  /\ pc' = "done"
  /\ UNCHANGED <<nb, qubitOp, ee, vqe, molecule, freeze_list, remove_list,
                 num_particles, num_spin_orbitals, energy_shift,
                 nuclear_repulsion_energy, hf, ret, written>>
  /\ UNCHANGED mcVars

Next ==
  \/ ParseCell \/ RandomCell \/ ExactCell \/ VQECell
  \/ ChemDriverCell \/ ChemParamsCell \/ ChemHamiltonianCell
  \/ ChemExactCell \/ ChemSetupCell \/ ChemVQECell

Spec == Init /\ [][Next]_vars

\* =================================================================== claims
MaxcutRun == nb = "maxcut"
ChemRun == nb = "chem"
HamiltonianBuilt == pc \in {"exact", "setup", "vqe", "done"}
ExactPrinted == Len(out) >= 1
VQEPrinted == Len(out) >= 2

\* C1: for every weighted graph w, the pair (qubitOp, offset) derived from w
\* satisfies offset + (minimum eigenvalue of qubitOp) = -(maximum cut weight
\* of w), the maximum taken over all 2^n assignments; the value the exact-solver cell prints as "maxcut objective" is
\* this number.
C1_OffsetPlusMinEigenvalue ==
  /\ (MaxcutRun /\ pc # "start") =>
        Plus(offset, Num(MinEigenvalue(qubitOp), 0)) = Num(0 - 2 * MaxCutWeight(w), 0)
  /\ (MaxcutRun /\ ExactPrinted) =>
        out[1].objective = Num(0 - 2 * MaxCutWeight(w), 0)

\* The run on the graph the notebook records: offset -3.5, energy -20.5,
\* maxcut objective -24.0, as in the recorded output.
C1_Witness ==
  /\ MaxcutRun /\ pc = "vqe"
  /\ w = RecordedGraph
  /\ offset = Num(-7, 0)
  /\ out[1].energy = Num(-41, 0)
  /\ out[1].objective = Num(-48, 0)

\* C2: the solution printed after the exact solver is a maximum cut: one 0/1
\* label per node of w, and the weight of the edges crossing that partition
\* equals -(result['energy'] + offset), the maximum cut weight, whichever
\* vector of a degenerate lowest eigenspace the solver returned.
C2_ExactSolutionIsMaxCut ==
  (MaxcutRun /\ ExactPrinted) =>
     /\ DOMAIN out[1].solution = Nodes(w.n)
     /\ \A i \in Nodes(w.n) : out[1].solution[i] \in {0, 1}
     /\ Num(2 * CutWeight(w, out[1].solution), 0) = Minus(Num(0, 0), out[1].objective)
     /\ CutWeight(w, out[1].solution) = MaxCutWeight(w)

\* The exact solver returned a superposition of two ground states of a graph
\* with a positive maximum cut, and the cell decoded and printed it.
C2_Witness ==
  /\ MaxcutRun /\ pc = "vqe"
  /\ MaxCutWeight(w) > 0
  /\ Cardinality({k \in DOMAIN result.eigvecs[1] : result.eigvecs[1][k] > 0}) = 2
  /\ x = SampleMostLikely(result.eigvecs[1])
  /\ out[1].solution = GetGraphSolution(x)

\* Basis state k as an assignment, and the index of the complemented one.
BitsOf(k, n) == [i \in Nodes(n) |-> Bit(k, i)]
ComplementState(k, n) == Pow2(n) - 1 - k

\* C10: an assignment and its bitwise complement have the same cut weight and
\* the same Hamiltonian energy, so the lowest eigenvalue is at least two-fold
\* degenerate; when VQE prints the exact solver's max-cut objective up to its
\* residual, the two printed bitstrings cut the same weight although they may
\* differ (they may be complements of each other).
C10_ComplementSymmetry ==
  (MaxcutRun /\ pc # "start") =>
     /\ \A b \in Assignments(w.n) :
          CutWeight(w, b) = CutWeight(w, Complement(b))
     /\ \A k \in BasisStates(qubitOp) :
          /\ Energy(qubitOp, k) = Energy(qubitOp, ComplementState(k, w.n))
          /\ Num(2 * CutWeight(w, BitsOf(k, w.n)), 0)
               = Minus(Num(0, 0), Plus(Num(Energy(qubitOp, k), 0), offset))
     /\ Cardinality(GroundStates(qubitOp)) >= 2
     /\ (VQEPrinted /\ out[1].objective.half = out[2].objective.half) =>
          CutWeight(w, out[1].solution) = CutWeight(w, out[2].solution)

\* The recorded run: the exact solver printed [1,0,1,1], VQE printed its
\* complement [0,1,0,0]; the objectives printed are -24.0 and
\* -23.999999999992276.
C10_Witness ==
  /\ MaxcutRun /\ pc = "done"
  /\ w = RecordedGraph
  /\ out[1].solution = [i \in Nodes(4) |-> IF i = 1 THEN 0 ELSE 1]
  /\ out[2].solution = Complement(out[1].solution)
  /\ out[1].objective = Num(-48, 0)
  /\ out[2].energy = Num(-41, RecordedResidual)
  /\ out[2].objective = Num(-48, RecordedResidual)

\* C5 (as stated): in one run of the Max-Cut notebook w is obtained from
\* exactly one source and the Hamiltonian is derived exactly once; w, qubitOp
\* and offset are never assigned a second time.
C5_SingleSource ==
  MaxcutRun => (assigns.w <= 1 /\ assigns.ham <= 1)

\* C5 (amended): the run assigns w twice, first parsed from the file and then,
\* by the unconditional `if True:` cell, generated from the seeded random
\* process; (qubitOp, offset) is derived after each, twice in all.  From the
\* random-graph cell on nothing is assigned again: the solvers see the random
\* graph's Hamiltonian.
C5_TwoSourcesThenFrozen ==
  /\ (MaxcutRun /\ pc = "random") => assigns = [w |-> 1, ham |-> 1, src |-> "file"]
  /\ (MaxcutRun /\ HamiltonianBuilt) =>
        /\ assigns = [w |-> 2, ham |-> 2, src |-> "random"]
        /\ qubitOp = GetMaxcutQubitops(w).op
        /\ offset = GetMaxcutQubitops(w).shift

C5_Witness ==
  /\ MaxcutRun /\ pc = "done"
  /\ assigns.w = 2 /\ assigns.ham = 2 /\ assigns.src = "random"

\* C6: the Hamiltonian is read-only input to both solvers: no step from the
\* exact solve on changes qubitOp, offset, energy_shift or
\* nuclear_repulsion_energy, and the variational solver is built with exactly
\* the operator the exact solver was built with; both solver cells print with
\* the same constants.
C6_HamiltonianReadOnly ==
  [][/\ HamiltonianBuilt =>
          /\ qubitOp' = qubitOp
          /\ offset' = offset
          /\ energy_shift' = energy_shift
          /\ nuclear_repulsion_energy' = nuclear_repulsion_energy
     /\ vqe' # NoOp => (vqe' = ee' /\ vqe' = qubitOp')
     /\ (ChemRun /\ Len(out') >= 2) =>
          (out'[2].total.shift = out'[1].total.shift
           /\ out'[2].total.nre = out'[1].total.nre)]_vars

\* The chemistry run ended: VQE ran on the operator of the exact solver, with
\* a frozen-core energy shift in both printed totals.
C6_Witness ==
  /\ ChemRun /\ pc = "done"
  /\ ee = qubitOp /\ vqe = qubitOp /\ qubitOp # NoOp
  /\ energy_shift.kind = "frozen"
  /\ out[2].total.shift = energy_shift

\* The pipeline stages, in the order the spec lists them.
Rank(step) ==
  CASE step = "definition" -> 1
    [] step = "hamiltonian" -> 2
    [] step = "reduction" -> 3
    [] step = "exact" -> 4
    [] step = "vqe" -> 5

StagesInOrder ==
  \A i, j \in DOMAIN log : i < j => Rank(log[i]) < Rank(log[j])

IsPrefix(s, t) == Len(s) <= Len(t) /\ \A i \in DOMAIN s : s[i] = t[i]

\* Each solver ran at most once, after a Hamiltonian construction, and no
\* definition or construction step follows a solver.
SolversOnceAfterBuild ==
  \A i \in DOMAIN log :
    log[i] \in {"exact", "vqe"} =>
      /\ \E j \in DOMAIN log : j < i /\ log[j] = "hamiltonian"
      /\ \A j \in DOMAIN log : j > i => log[j] \notin {"definition", "hamiltonian", "reduction"}
      /\ \A j \in DOMAIN log : j # i => log[j] # log[i]

\* Every print reads the result of the solver of its own cell.
PrintsReadOwnSolver ==
  /\ \A i \in DOMAIN out : out[i].by = out[i].cell
  /\ (MaxcutRun /\ Len(out) >= 1) =>
        /\ out[Len(out)].energy = result.energy
        /\ out[Len(out)].solution = GetGraphSolution(SampleMostLikely(result.eigvecs[1]))
  /\ (ChemRun /\ Len(out) >= 2) => out[2].eigval_of = results.op

\* C7 (as stated): each run is one linear pipeline whose steps occur in the
\* order definition, Hamiltonian construction, reduction, exact solve,
\* variational solve; each solver runs once, after the Hamiltonian is built;
\* every print reads the result of the solver that ran just before it.
C7_LinearPipeline ==
  StagesInOrder /\ SolversOnceAfterBuild /\ PrintsReadOwnSolver

\* C7 (amended): as stated, except that the Max-Cut notebook runs definition
\* and Hamiltonian construction twice (file graph, then random graph) before
\* the first solver: its steps are definition, Hamiltonian, definition,
\* Hamiltonian, exact solve, variational solve.
C7_LinearPipelineAfterSecondBuild ==
  /\ ChemRun => StagesInOrder
  /\ MaxcutRun => IsPrefix(log, <<"definition", "hamiltonian", "definition",
                                 "hamiltonian", "exact", "vqe">>)
  /\ SolversOnceAfterBuild
  /\ PrintsReadOwnSolver
  /\ pc = "done" => (Len(out) = 2 /\ log[Len(log)] = "vqe" /\ log[Len(log) - 1] = "exact")

\* The Max-Cut run ended, VQE stopped above the lowest eigenvalue and the
\* solution printed after it differs from the exact solver's.
C7_Witness ==
  /\ MaxcutRun /\ pc = "done"
  /\ out[1].by = "exact" /\ out[2].by = "vqe"
  /\ out[1].energy # out[2].energy
  /\ out[1].solution # out[2].solution

\* ---- chemistry: what the index preparation is meant to produce
\* The orbitals named by a written list (negative = reverse order).
Orbitals(l, n) == ToPositive(l, n)

\* freeze_list and remove_list name distinct orbitals, none of them twice.
DistinctOrbitals ==
  LET n == molecule.num_orbitals
      f == Orbitals(written.freeze_list, n)
      r == Orbitals(written.remove_list, n)
  IN NoDup(f) /\ NoDup(r) /\ Range(f) \cap Range(r) = {}

\* The index of spin orbital so once the spin orbitals in frozen are deleted.
Renumbered(so, frozen) == so - Cardinality({f \in frozen : f < so})

ExpectedFreeze ==
  LET n == molecule.num_orbitals
      f == Orbitals(written.freeze_list, n)
  IN f \o SeqMap([v \in 0 .. n - 1 |-> v + n], f)

ExpectedRemove ==
  LET n == molecule.num_orbitals
      r == Orbitals(written.remove_list, n)
      frozen == Range(ExpectedFreeze)
  IN SeqMap([v \in 0 .. n - 1 |-> Renumbered(v, frozen)], r)
     \o SeqMap([v \in 0 .. n - 1 |-> Renumbered(v + n, frozen)], r)

\* C8: after the index preparation freeze_list is the non-negative spatial
\* indices followed by the same indices plus N, remove_list is the alpha and
\* the beta spin-orbital index of every orbital to remove in the numbering
\* left after the frozen spin orbitals are deleted, every index is in range
\* and none appears twice.
C8_IndexPreparation ==
  (ChemRun /\ HamiltonianBuilt /\ DistinctOrbitals) =>
     LET n == molecule.num_orbitals IN
     /\ freeze_list = ExpectedFreeze
     /\ remove_list = ExpectedRemove
     /\ \A i \in DOMAIN freeze_list : freeze_list[i] \in 0 .. 2 * n - 1
     /\ \A i \in DOMAIN remove_list :
          remove_list[i] \in 0 .. 2 * n - Len(freeze_list) - 1
     /\ NoDup(freeze_list) /\ NoDup(remove_list)

FrozenSpinOrbitals == 2 * Len(written.freeze_list)
RemovedSpinOrbitals == 2 * Len(written.remove_list)
Electrons == molecule.num_alpha + molecule.num_beta

CountersEquations ==
  /\ hf.num_orbitals =
       2 * molecule.num_orbitals - FrozenSpinOrbitals - RemovedSpinOrbitals
  /\ hf.num_particles = Electrons - FrozenSpinOrbitals
  /\ hf.num_orbitals = num_spin_orbitals
  /\ hf.num_particles = num_particles

\* C9 (as stated): the counters handed to HartreeFock and UCCSD are
\* num_spin_orbitals = 2*num_orbitals - frozen - removed spin orbitals,
\* num_particles = num_alpha + num_beta - frozen spin orbitals, and
\* 0 <= num_particles <= num_spin_orbitals, for every choice of disjoint
\* duplicate-free lists.
C9_Counters ==
  (ChemRun /\ hf.set /\ DistinctOrbitals) =>
     /\ CountersEquations
     /\ 0 <= hf.num_particles
     /\ hf.num_particles <= hf.num_orbitals

\* C9 (amended): the two equations hold for every choice of disjoint
\* duplicate-free lists; 0 <= num_particles holds exactly when the frozen spin
\* orbitals are at most num_alpha + num_beta, and num_particles <=
\* num_spin_orbitals exactly when num_alpha + num_beta plus the removed spin
\* orbitals is at most 2*num_orbitals: the notebook validates neither.
C9_CountersWithinElectronBudget ==
  (ChemRun /\ hf.set /\ DistinctOrbitals) =>
     /\ CountersEquations
     /\ (0 <= hf.num_particles) <=> (FrozenSpinOrbitals <= Electrons)
     /\ (hf.num_particles <= hf.num_orbitals)
          <=> (Electrons + RemovedSpinOrbitals <= 2 * molecule.num_orbitals)

\* The recorded run: 6 orbitals and 4 electrons, freeze_list = [0] and
\* remove_list = [-3, -2] converted to [0, 6] and [2, 3, 7, 8]; 2 particles
\* in 6 spin orbitals are handed over.
C9_Witness ==
  /\ ChemRun /\ hf.set /\ DistinctOrbitals
  /\ molecule = RecordedMolecule
  /\ written = [freeze_list |-> RecordedFreezeList, remove_list |-> RecordedRemoveList]
  /\ freeze_list = <<0, 6>> /\ remove_list = <<2, 3, 7, 8>>
  /\ hf.num_particles = 2 /\ hf.num_orbitals = 6

====
